---- MODULE Spec2Model ----
(***************************************************************************)
(* Model of pyrunpod.py: a script that selects or creates a RunPod pod,    *)
(* waits until it reports a runtime, starts a local FastAPI relay on a     *)
(* daemon thread and runs an interactive prompt loop whose try/finally     *)
(* stops the pod.                                                          *)
(*                                                                         *)
(* Text is modelled as a sequence of one-character strings.  Every remote  *)
(* call, console read and log line of interest is appended to `log`, the   *)
(* history of the main thread.                                             *)
(***************************************************************************)
EXTENDS Integers, Sequences, FiniteSets, TLC

\* ------------------------------------------------------------------------
\* Bounds
\* ------------------------------------------------------------------------
MaxPods == 2
MaxNotReady == 2
MaxPrompts == 2
MaxLog == 16

\* ------------------------------------------------------------------------
\* Text helpers (str.strip, str.lower, int)
\* ------------------------------------------------------------------------
Whitespace == {" ", "\t", "\r"}

UpperChars == <<"B", "E", "N", "S", "Y">>
LowerChars == <<"b", "e", "n", "s", "y">>

LowerChar(c) ==
    IF \E i \in 1..Len(UpperChars) : UpperChars[i] = c
    THEN LowerChars[CHOOSE i \in 1..Len(UpperChars) : UpperChars[i] = c]
    ELSE c

Lower(s) == [i \in 1..Len(s) |-> LowerChar(s[i])]

RECURSIVE LStrip(_)
LStrip(s) ==
    IF s = <<>> THEN s
    ELSE IF Head(s) \in Whitespace THEN LStrip(Tail(s)) ELSE s

RECURSIVE RStrip(_)
RStrip(s) ==
    IF s = <<>> THEN s
    ELSE IF s[Len(s)] \in Whitespace THEN RStrip(SubSeq(s, 1, Len(s) - 1)) ELSE s

StripLeftOnly(s) == LStrip(s)

Strip(s) == RStrip(LStrip(s))

DigitChars == <<"0", "1", "2", "3", "4", "5", "6", "7", "8", "9">>

IsDigit(c) == \E i \in 1..10 : DigitChars[i] = c

DigitVal(c) == (CHOOSE i \in 1..10 : DigitChars[i] = c) - 1

RECURSIVE DigitsVal(_)
DigitsVal(s) ==
    IF s = <<>> THEN 0 ELSE 10 * DigitsVal(SubSeq(s, 1, Len(s) - 1)) + DigitVal(s[Len(s)])

AllDigits(s) == s # <<>> /\ \A i \in 1..Len(s) : IsDigit(s[i])

ValueError == [error |-> "ValueError"]

\* int(s): optional surrounding whitespace, optional sign, at least one digit
ParseInt(s) ==
    LET t == Strip(s)
        signed == t # <<>> /\ t[1] \in {"+", "-"}
        body == IF signed THEN Tail(t) ELSE t
    IN  IF ~AllDigits(body) THEN ValueError
        ELSE IF signed /\ t[1] = "-" THEN [int |-> 0 - DigitsVal(body)]
        ELSE [int |-> DigitsVal(body)]

\* ------------------------------------------------------------------------
\* Console input
\* ------------------------------------------------------------------------
EOF == <<"EOFError">>
INTERRUPT == <<"KeyboardInterrupt">>
NoInput == <<"<nothing read>">>

ChoiceInputs ==
    { <<DigitChars[k + 1]>> : k \in 0..(MaxPods + 1) }
    \cup { <<" ", DigitChars[MaxPods + 1], " ">>, <<>>, <<"-", "1">>, <<"+", "1">>,
           <<"x">>, <<"1", "x">>, EOF }

ConfirmInputs ==
    { <<"y">>, <<" ", "Y", " ">>, <<"n">>, <<>>, <<"y", "e", "s">>, EOF }

SentinelInputs ==
    { <<"/", "b", "y", "e">>, <<" ", "/", "B", "Y", "E", " ">>,
      <<"\t", "/", "b", "y", "E", " ", " ">> }

OtherPrompts ==
    { <<"h", "i">>, <<>>, <<"b", "y", "e">>, <<"/", " ", "b", "y", "e">>,
      <<"/", "b", "y", "e", " ", "x">>, <<"/", "b", "y", "e", "e">> }

PromptInputs == SentinelInputs \cup OtherPrompts \cup {EOF, INTERRUPT}

\* ------------------------------------------------------------------------
\* Remote control API values
\* ------------------------------------------------------------------------
AllPodIds == <<"podA", "podB", "podC", "podD">>
PodIds == {AllPodIds[i] : i \in 1..MaxPods}
NewPodId == "podN"

None == [none |-> TRUE]

Pod(i) == [id |-> i]

\* lists runpod.get_pods() may return: distinct pods, any order
PodLists ==
    { l \in UNION { [1..n -> {Pod(i) : i \in PodIds}] : n \in 0..MaxPods } :
        \A a, b \in 1..Len(l) : a # b => l[a] # l[b] }

\* the 'runtime' field of a get_pod result: missing, empty (falsy) or filled
Runtimes == {"absent", "empty", "nonempty"}

TruthyOrPresent(r) == r # "absent"

\* pod_info.get("runtime") as a condition
Truthy(r) == r = "nonempty"

PodInfo(i, r) == [id |-> i, runtime |-> r]

\* ------------------------------------------------------------------------
\* Pod selection (lines 81-88)
\* ------------------------------------------------------------------------
InRangeUpperOnly(idx, n) == idx < n

\* 0 <= idx < len(pods)
InRange(idx, n) == 0 <= idx /\ idx < n

IndexError == [error |-> "IndexError"]

PyIndexOffByOne(l, idx) ==
    IF 0 <= idx + 1 /\ idx + 1 < Len(l) THEN l[idx + 2] ELSE IndexError

\* pods[idx] with Python's negative indexing
PyIndex(l, idx) ==
    IF 0 <= idx /\ idx < Len(l) THEN l[idx + 1]
    ELSE IF idx < 0 /\ 0 - idx <= Len(l) THEN l[Len(l) + idx + 1]
    ELSE IndexError

\* result of the try block: the pod selected (or None) and whether the
\* except branch logged the warning
SelectPod(l, inp) ==
    IF inp = EOF THEN [sel |-> None, warned |-> TRUE]
    ELSE LET choice == Strip(inp) IN
         IF choice = <<>> THEN [sel |-> None, warned |-> FALSE]
         ELSE LET n == ParseInt(choice) IN
              IF n = ValueError THEN [sel |-> None, warned |-> TRUE]
              ELSE IF InRange(n.int - 1, Len(l))
                   THEN IF PyIndex(l, n.int - 1) = IndexError
                        THEN [sel |-> None, warned |-> TRUE]
                        ELSE [sel |-> PyIndex(l, n.int - 1), warned |-> FALSE]
                   ELSE [sel |-> None, warned |-> FALSE]

BranchIgnoresSelection(sel) == "confirm"

\* 'if selected_pod:' (line 90)
Branch(sel) == IF sel # None THEN "reuse" ELSE "confirm"

ConfirmedAlways(inp) == TRUE

ConfirmedStartsWithY(inp) == Lower(Strip(inp)) # <<>> /\ Lower(Strip(inp))[1] = "y"

\* confirm == 'y' after strip().lower()
Confirmed(inp) == Lower(Strip(inp)) = <<"y">>

IsSentinelExact(inp) == inp = <<"/", "b", "y", "e">>

\* prompt.strip().lower() == "/bye"
IsSentinel(inp) == Lower(Strip(inp)) = <<"/", "b", "y", "e">>

\* f'https://{pod_info["id"]}-80.proxy.runpod.net'
EndpointOf(info) == <<"https://", info.id, "-80.proxy.runpod.net">>

\* ------------------------------------------------------------------------
\* State
\* ------------------------------------------------------------------------
VARIABLES
    pc,             \* position of the main thread
    api_key,        \* RUNPOD_API_KEY, <<>> when absent
    pods,           \* result of get_pods()
    choice,         \* raw line read at the selection prompt
    confirm,        \* raw line read at the new-pod question
    selected_pod,   \* None or a pod
    pod_id,         \* id polled by the wait loops
    pod_info,       \* last get_pod() result
    inference_url,  \* endpoint derived from pod_info
    llm,            \* inference_server_url of the LangChain client
    prompt,         \* last line read by the session loop
    pending,        \* an exception is propagating out of the loop
    proxy,          \* state of the daemon thread running uvicorn
    relay,          \* outcome of the last request handled by proxy()
    log             \* history of calls, reads and log lines of the main thread

vars == <<pc, api_key, pods, choice, confirm, selected_pod, pod_id, pod_info,
          inference_url, llm, prompt, pending, proxy, relay, log>>

Terminal == {"done", "exited", "crashed"}

Alive == pc \notin Terminal

Count(kind) == Cardinality({i \in 1..Len(log) : log[i][1] = kind})

NoRelay == [none |-> TRUE]

Init ==
    /\ pc = "start"
    /\ api_key \in {<<>>, <<"k">>}
    /\ pods = <<>>
    /\ choice = NoInput
    /\ confirm = NoInput
    /\ selected_pod = None
    /\ pod_id = ""
    /\ pod_info = None
    /\ inference_url = <<>>
    /\ llm = <<>>
    /\ prompt = <<>>
    /\ pending = FALSE
    /\ proxy = "none"
    /\ relay = NoRelay
    /\ log = <<>>

\* ------------------------------------------------------------------------
\* Startup (lines 29-66)
\* ------------------------------------------------------------------------
ProvisioningFailureCleansUp == IF pod_info # None THEN "finally" ELSE "crashed"

\* a remote call raising outside any try block ends the process
ProvisioningFailure == "crashed"

\* the history keeps at most MaxLog entries; the wait loops, which may run
\* for ever, stop recording once it is full
Record(l, entries) == IF Len(l) + Len(entries) <= MaxLog THEN l \o entries ELSE l

KeyMissingIgnored(k) == FALSE

\* 'if not api_key'
KeyMissing(k) == k = <<>>

CheckKey ==
    /\ pc = "start"
    /\ IF KeyMissing(api_key)
       THEN /\ log' = Append(log, <<"error", "RUNPOD_API_KEY not found">>)
            /\ pc' = "crashed"
       ELSE /\ log' = log
            /\ pc' = "get_gpus"
    /\ UNCHANGED <<api_key, pods, choice, confirm, selected_pod, pod_id, pod_info,
                   inference_url, llm, prompt, pending, proxy, relay>>

GetGpus(ok) ==
    /\ pc = "get_gpus"
    /\ log' = Append(log, <<"get_gpus">>)
    /\ pc' = IF ok THEN "get_pods" ELSE ProvisioningFailure
    /\ UNCHANGED <<api_key, pods, choice, confirm, selected_pod, pod_id, pod_info,
                   inference_url, llm, prompt, pending, proxy, relay>>

\* ------------------------------------------------------------------------
\* Pod selection / creation (lines 71-137)
\* ------------------------------------------------------------------------
GetPods(l, ok) ==
    /\ pc = "get_pods"
    /\ log' = Append(log, <<"get_pods">>)
    /\ IF ok
       THEN /\ pods' = l
            /\ pc' = IF l # <<>> THEN "select" ELSE "branch"
       ELSE /\ pods' = pods
            /\ pc' = ProvisioningFailure
    /\ UNCHANGED <<api_key, choice, confirm, selected_pod, pod_id, pod_info,
                   inference_url, llm, prompt, pending, proxy, relay>>

Select(inp) ==
    /\ pc = "select"
    /\ choice' = inp
    /\ IF inp = INTERRUPT
       THEN /\ pc' = "crashed"
            /\ log' = Append(log, <<"input", "select">>)
            /\ selected_pod' = selected_pod
       ELSE LET r == SelectPod(pods, inp) IN
            /\ pc' = "branch"
            /\ selected_pod' = r.sel
            /\ log' = IF r.warned
                      THEN log \o << <<"input", "select">>, <<"warning", "Invalid selection">> >>
                      ELSE Append(log, <<"input", "select">>)
    /\ UNCHANGED <<api_key, pods, confirm, pod_id, pod_info,
                   inference_url, llm, prompt, pending, proxy, relay>>

AfterPollGivesUp(r, sleepPc) ==
    IF Truthy(r) THEN "endpoint"
    ELSE IF Count("get_pod") < 3 THEN sleepPc ELSE "exited"

\* the wait loops: break on a truthy runtime, otherwise sleep and poll again
AfterPoll(r, sleepPc) == IF Truthy(r) THEN "endpoint" ELSE sleepPc

\* in Spec the remote answers 'not ready' at most MaxNotReady times in a run
MayAnswer(r) == Truthy(r) \/ Count("get_pod") < MaxNotReady

ReuseGet(r, ok) ==
    /\ pc = "branch"
    /\ Branch(selected_pod) = "reuse"
    /\ pod_id' = selected_pod.id
    /\ log' = Append(log, <<"get_pod", selected_pod.id, IF ok THEN r ELSE "raise">>)
    /\ IF ok
       THEN /\ pod_info' = PodInfo(selected_pod.id, r)
            /\ pc' = IF ~Truthy(r) THEN "resume" ELSE "endpoint"
       ELSE /\ pod_info' = pod_info
            /\ pc' = ProvisioningFailure
    /\ UNCHANGED <<api_key, pods, choice, confirm, selected_pod,
                   inference_url, llm, prompt, pending, proxy, relay>>

Resume(ok) ==
    /\ pc = "resume"
    /\ log' = Append(log, <<"resume_pod", pod_id, IF ok THEN "ok" ELSE "raise">>)
    /\ pc' = IF ok THEN "reuse_poll" ELSE ProvisioningFailure
    /\ UNCHANGED <<api_key, pods, choice, confirm, selected_pod, pod_id, pod_info,
                   inference_url, llm, prompt, pending, proxy, relay>>

ReusePoll(r, ok) ==
    /\ pc = "reuse_poll"
    /\ log' = Record(log, << <<"get_pod", pod_id, IF ok THEN r ELSE "raise">> >>)
    /\ IF ok
       THEN /\ pod_info' = PodInfo(pod_id, r)
            /\ pc' = AfterPoll(r, "reuse_sleep")
       ELSE /\ pod_info' = pod_info
            /\ pc' = ProvisioningFailure
    /\ UNCHANGED <<api_key, pods, choice, confirm, selected_pod, pod_id,
                   inference_url, llm, prompt, pending, proxy, relay>>

ReuseSleep ==
    /\ pc = "reuse_sleep"
    /\ log' = Record(log, << <<"sleep", "5">> >>)
    /\ pc' = "reuse_poll"
    /\ UNCHANGED <<api_key, pods, choice, confirm, selected_pod, pod_id, pod_info,
                   inference_url, llm, prompt, pending, proxy, relay>>

Confirm(inp) ==
    /\ pc = "branch"
    /\ Branch(selected_pod) = "confirm"
    /\ inp \in ConfirmInputs
    /\ confirm' = inp
    /\ log' = Append(log, <<"input", "confirm">>)
    /\ pc' = IF inp = EOF THEN "crashed"
             ELSE IF ~Confirmed(inp) THEN "exited" ELSE "create"
    /\ UNCHANGED <<api_key, pods, choice, selected_pod, pod_id, pod_info,
                   inference_url, llm, prompt, pending, proxy, relay>>

Create(ok) ==
    /\ pc = "create"
    /\ log' = Append(log, <<"create_pod", NewPodId, IF ok THEN "ok" ELSE "raise">>)
    /\ IF ok
       THEN /\ selected_pod' = Pod(NewPodId)
            /\ pod_id' = NewPodId
            /\ pc' = "create_poll"
       ELSE /\ UNCHANGED <<selected_pod, pod_id>>
            /\ pc' = ProvisioningFailure
    /\ UNCHANGED <<api_key, pods, choice, confirm, pod_info,
                   inference_url, llm, prompt, pending, proxy, relay>>

CreatePoll(r, ok) ==
    /\ pc = "create_poll"
    /\ log' = Record(log, << <<"get_pod", pod_id, IF ok THEN r ELSE "raise">> >>)
    /\ IF ok
       THEN /\ pod_info' = PodInfo(pod_id, r)
            /\ pc' = AfterPoll(r, "create_sleep")
       ELSE /\ pod_info' = pod_info
            /\ pc' = ProvisioningFailure
    /\ UNCHANGED <<api_key, pods, choice, confirm, selected_pod, pod_id,
                   inference_url, llm, prompt, pending, proxy, relay>>

CreateSleep ==
    /\ pc = "create_sleep"
    /\ log' = Record(log, << <<"sleep", "5">> >>)
    /\ pc' = "create_poll"
    /\ UNCHANGED <<api_key, pods, choice, confirm, selected_pod, pod_id, pod_info,
                   inference_url, llm, prompt, pending, proxy, relay>>

\* ------------------------------------------------------------------------
\* Inference endpoint and relay start (lines 142-172)
\* ------------------------------------------------------------------------
Endpoint ==
    /\ pc = "endpoint"
    /\ inference_url' = EndpointOf(pod_info)
    /\ log' = Append(log, <<"info", "Model is live">>)
    /\ pc' = "start_proxy"
    /\ UNCHANGED <<api_key, pods, choice, confirm, selected_pod, pod_id, pod_info,
                   llm, prompt, pending, proxy, relay>>

\* proxy_thread.start()
StartProxy ==
    /\ pc = "start_proxy"
    /\ proxy' = "starting"
    /\ log' = Append(log, <<"thread_start", "proxy">>)
    /\ pc' = "proxy_sleep"
    /\ UNCHANGED <<api_key, pods, choice, confirm, selected_pod, pod_id, pod_info,
                   inference_url, llm, prompt, pending, relay>>

DelayWaitsForBind(p) == p = "listening"

\* what time.sleep(2) requires of the listener thread: nothing
DelayOver(p) == TRUE

\* time.sleep(2) and the "Local proxy is running" line
ProxySleep ==
    /\ pc = "proxy_sleep"
    /\ DelayOver(proxy)
    /\ log' = log \o << <<"sleep", "2">>, <<"info", "Local proxy is running">> >>
    /\ pc' = "make_llm"
    /\ UNCHANGED <<api_key, pods, choice, confirm, selected_pod, pod_id, pod_info,
                   inference_url, llm, prompt, pending, proxy, relay>>

\* ------------------------------------------------------------------------
\* Session loop (lines 177-202)
\* ------------------------------------------------------------------------
\* the relay's address, as logged at line 172
RelayUrl == <<"http://localhost:11435">>

LlmThroughRelay(url) == RelayUrl

\* inference_server_url=inference_url
LlmServerUrl(url) == url

\* constructing the client, then entering the try block
MakeLlm(ok) ==
    /\ pc = "make_llm"
    /\ IF ok
       THEN /\ llm' = LlmServerUrl(inference_url)
            /\ log' = Append(log, <<"loop">>)
            /\ pc' = "read"
       ELSE /\ llm' = llm
            /\ log' = log
            /\ pc' = "crashed"
    /\ UNCHANGED <<api_key, pods, choice, confirm, selected_pod, pod_id, pod_info,
                   inference_url, prompt, pending, proxy, relay>>

LoopExitSkipsCleanupOnError(raised) == IF raised THEN "crashed" ELSE "finally"

\* where control goes when the while loop is left: the finally clause
LoopExit(raised) == "finally"

ReadPrompt(inp) ==
    /\ pc = "read"
    /\ inp \in PromptInputs
    /\ prompt' = inp
    /\ IF inp \in {EOF, INTERRUPT}
       THEN /\ log' = Append(log, <<"input", "prompt">>)
            /\ pending' = TRUE
            /\ pc' = LoopExit(TRUE)
       ELSE IF IsSentinel(inp)
       THEN /\ log' = log \o << <<"input", "prompt">>, <<"info", "Shutting down the pod">> >>
            /\ pending' = FALSE
            /\ pc' = LoopExit(FALSE)
       ELSE /\ Count("generate") < MaxPrompts
            /\ log' = Append(log, <<"input", "prompt">>)
            /\ pending' = FALSE
            /\ pc' = "generate"
    /\ UNCHANGED <<api_key, pods, choice, confirm, selected_pod, pod_id, pod_info,
                   inference_url, llm, proxy, relay>>

GenerateOutcomes == {"ok", "exception", "interrupt"}

AfterFailureStop(outcome) == IF outcome = "ok" THEN "read" ELSE LoopExit(TRUE)

\* where control goes after llm(prompt): 'except Exception' keeps looping
AfterGenerate(outcome) == IF outcome = "interrupt" THEN LoopExit(TRUE) ELSE "read"

\* llm(prompt) followed by print or by the except branch
Generate(outcome) ==
    /\ pc = "generate"
    /\ outcome \in GenerateOutcomes
    /\ log' = log \o
         CASE outcome = "ok" -> << <<"generate">> \o llm, <<"model_line">> >>
           [] outcome = "exception" -> << <<"generate">> \o llm, <<"error", "Inference request failed">> >>
           [] OTHER -> << <<"generate">> \o llm >>
    /\ pending' = (outcome = "interrupt")
    /\ pc' = AfterGenerate(outcome)
    /\ UNCHANGED <<api_key, pods, choice, confirm, selected_pod, pod_id, pod_info,
                   inference_url, llm, prompt, proxy, relay>>

StopStaleLoopVariable == IF pods # <<>> THEN pods[Len(pods)].id ELSE pod_info.id

\* the argument of stop_pod: pod_info["id"]
StopPodArg == pod_info.id

\* the finally clause: runpod.stop_pod(pod_info["id"])
Finally(ok) ==
    /\ pc = "finally"
    /\ log' = IF ok
              THEN log \o << <<"stop_pod", StopPodArg>>, <<"info", "Pod stop requested">> >>
              ELSE Append(log, <<"stop_pod", StopPodArg>>)
    /\ pc' = IF ok /\ ~pending THEN "done" ELSE "crashed"
    /\ UNCHANGED <<api_key, pods, choice, confirm, selected_pod, pod_id, pod_info,
                   inference_url, llm, prompt, pending, proxy, relay>>

\* ------------------------------------------------------------------------
\* Relay (lines 150-170), run by the daemon thread
\* ------------------------------------------------------------------------
\* request and response bodies as received on the wire
BodyTexts ==
    { "{\"inputs\": \"hi\"}", "{ \"inputs\" :\n \"hi\" }", "[1, 2]", "[1,2]",
      "{\"generated_text\": \"world\"}", "[{\"generated_text\": \"world\"}]",
      "{\"error\": \"overloaded\"}", "null", "", "<html>Bad Gateway</html>",
      "{\"inputs\": " }

JSONDecodeError == <<"JSONDecodeError">>

\* json.loads: a value as a tuple of tokens, or JSONDecodeError
JsonLoads(text) ==
    CASE text \in {"{\"inputs\": \"hi\"}", "{ \"inputs\" :\n \"hi\" }"} -> <<"obj", "inputs", "hi">>
      [] text \in {"[1, 2]", "[1,2]"} -> <<"arr", "1", "2">>
      [] text = "{\"generated_text\": \"world\"}" -> <<"obj", "generated_text", "world">>
      [] text = "[{\"generated_text\": \"world\"}]" -> <<"arr", "obj", "generated_text", "world">>
      [] text = "{\"error\": \"overloaded\"}" -> <<"obj", "error", "overloaded">>
      [] text = "null" -> <<"null">>
      [] OTHER -> JSONDecodeError

\* json.dumps: the canonical text of a value
JsonDumps(v) ==
    CASE v = <<"obj", "inputs", "hi">> -> "{\"inputs\": \"hi\"}"
      [] v = <<"arr", "1", "2">> -> "[1, 2]"
      [] v = <<"obj", "generated_text", "world">> -> "{\"generated_text\": \"world\"}"
      [] v = <<"arr", "obj", "generated_text", "world">> -> "[{\"generated_text\": \"world\"}]"
      [] v = <<"obj", "error", "overloaded">> -> "{\"error\": \"overloaded\"}"
      [] v = <<"null">> -> "null"
      [] OTHER -> "{\"error\": \"...\"}"

\* outcomes of requests.post: a response with some text, or an exception
UpstreamOutcomes ==
    { <<"response", t>> : t \in BodyTexts } \cup { <<"raise", "ConnectionError">> }

NoCall == "<not called>"

ErrorEnvelope(msg) == <<"obj", "error", msg>>

ProxyNoCatch(body, up) ==
    LET data == JsonLoads(body) IN
    IF data = JSONDecodeError
    THEN [body |-> body, forwarded |-> NoCall, upstream |-> up,
          returned |-> ErrorEnvelope("JSONDecodeError"), raised |-> FALSE]
    ELSE IF up[1] = "raise"
    THEN [body |-> body, forwarded |-> JsonDumps(data), upstream |-> up,
          returned |-> <<>>, raised |-> TRUE]
    ELSE IF JsonLoads(up[2]) = JSONDecodeError
    THEN [body |-> body, forwarded |-> JsonDumps(data), upstream |-> up,
          returned |-> <<>>, raised |-> TRUE]
    ELSE [body |-> body, forwarded |-> JsonDumps(data), upstream |-> up,
          returned |-> JsonLoads(up[2]), raised |-> FALSE]

\* proxy(request): what is posted upstream and what is returned to the caller
Proxy(body, up) ==
    LET data == JsonLoads(body) IN
    IF data = JSONDecodeError
    THEN [body |-> body, forwarded |-> NoCall, upstream |-> up,
          returned |-> ErrorEnvelope("JSONDecodeError"), raised |-> FALSE]
    ELSE IF up[1] = "raise"
    THEN [body |-> body, forwarded |-> JsonDumps(data), upstream |-> up,
          returned |-> ErrorEnvelope(up[2]), raised |-> FALSE]
    ELSE IF JsonLoads(up[2]) = JSONDecodeError
    THEN [body |-> body, forwarded |-> JsonDumps(data), upstream |-> up,
          returned |-> ErrorEnvelope("JSONDecodeError"), raised |-> FALSE]
    ELSE [body |-> body, forwarded |-> JsonDumps(data), upstream |-> up,
          returned |-> JsonLoads(up[2]), raised |-> FALSE]

\* uvicorn.run binds port 11435
ProxyBind ==
    /\ Alive
    /\ proxy = "starting"
    /\ proxy' = "listening"
    /\ UNCHANGED <<pc, api_key, pods, choice, confirm, selected_pod, pod_id, pod_info,
                   inference_url, llm, prompt, pending, relay, log>>

\* the bind fails (port in use): uvicorn.run returns and the thread ends
ProxyBindFail ==
    /\ Alive
    /\ proxy = "starting"
    /\ proxy' = "failed"
    /\ UNCHANGED <<pc, api_key, pods, choice, confirm, selected_pod, pod_id, pod_info,
                   inference_url, llm, prompt, pending, relay, log>>

\* one POST /generate handled by proxy()
RelayHandle(body, up) ==
    /\ Alive
    /\ proxy = "listening"
    /\ body \in BodyTexts
    /\ up \in UpstreamOutcomes
    /\ relay' = Proxy(body, up) @@ [url |-> inference_url]
    /\ UNCHANGED <<pc, api_key, pods, choice, confirm, selected_pod, pod_id, pod_info,
                   inference_url, llm, prompt, pending, proxy, log>>

\* ------------------------------------------------------------------------
\* Specification
\* ------------------------------------------------------------------------
Next ==
    \/ CheckKey
    \/ \E ok \in BOOLEAN : GetGpus(ok)
    \/ \E l \in PodLists, ok \in BOOLEAN : GetPods(l, ok)
    \/ \E inp \in ChoiceInputs \cup {INTERRUPT} : Select(inp)
    \/ \E r \in Runtimes, ok \in BOOLEAN : MayAnswer(r) /\ ReuseGet(r, ok)
    \/ \E ok \in BOOLEAN : Resume(ok)
    \/ \E r \in Runtimes, ok \in BOOLEAN : MayAnswer(r) /\ ReusePoll(r, ok)
    \/ ReuseSleep
    \/ \E inp \in ConfirmInputs : Confirm(inp)
    \/ \E ok \in BOOLEAN : Create(ok)
    \/ \E r \in Runtimes, ok \in BOOLEAN : MayAnswer(r) /\ CreatePoll(r, ok)
    \/ CreateSleep
    \/ Endpoint
    \/ StartProxy
    \/ ProxySleep
    \/ \E ok \in BOOLEAN : MakeLlm(ok)
    \/ \E inp \in PromptInputs : ReadPrompt(inp)
    \/ \E outcome \in GenerateOutcomes : Generate(outcome)
    \/ \E ok \in BOOLEAN : Finally(ok)
    \/ ProxyBind
    \/ ProxyBindFail

Spec == Init /\ [][Next]_vars

\* The relay on its own: the daemon thread after proxy_thread.start(), with
\* the main thread waiting for the first prompt of a run that created its pod
InitRelay ==
    /\ pc = "read"
    /\ api_key = <<"k">>
    /\ pods = <<>>
    /\ choice = NoInput
    /\ confirm \in {<<"y">>, <<" ", "Y", " ">>}
    /\ selected_pod = Pod(NewPodId)
    /\ pod_id = NewPodId
    /\ pod_info = PodInfo(NewPodId, "nonempty")
    /\ inference_url = EndpointOf(pod_info)
    /\ llm = inference_url
    /\ prompt = <<>>
    /\ pending = FALSE
    /\ proxy = "starting"
    /\ relay = NoRelay
    /\ log = << <<"get_gpus">>, <<"get_pods">>, <<"input", "confirm">>,
                <<"create_pod", NewPodId, "ok">>, <<"get_pod", NewPodId, "nonempty">>,
                <<"info", "Model is live">>, <<"thread_start", "proxy">>,
                <<"sleep", "2">>, <<"info", "Local proxy is running">>, <<"loop">> >>

NextRelay ==
    \/ ProxyBind
    \/ ProxyBindFail
    \/ \E body \in BodyTexts, up \in UpstreamOutcomes : RelayHandle(body, up)

SpecRelay == InitRelay /\ [][NextRelay]_vars

\* The wait loops without a bound on the remote's 'not ready' answers, under
\* the fairness of a running main thread: every step that does not wait for
\* the operator is eventually taken.  The operator ends the session at the
\* first prompt.
LiveLists == { l \in PodLists : Len(l) <= 1 }

LiveChoices == { <<"1">>, <<"x">>, <<>> }

LiveConfirms == { <<"y">>, <<"n">> }

LivePrompts == { <<"/", "b", "y", "e">>, EOF }

MainLive ==
    \/ CheckKey
    \/ \E ok \in BOOLEAN : GetGpus(ok)
    \/ \E l \in LiveLists, ok \in BOOLEAN : GetPods(l, ok)
    \/ \E r \in Runtimes, ok \in BOOLEAN : ReuseGet(r, ok)
    \/ \E ok \in BOOLEAN : Resume(ok)
    \/ \E r \in Runtimes, ok \in BOOLEAN : ReusePoll(r, ok)
    \/ ReuseSleep
    \/ \E ok \in BOOLEAN : Create(ok)
    \/ \E r \in Runtimes, ok \in BOOLEAN : CreatePoll(r, ok)
    \/ CreateSleep
    \/ Endpoint
    \/ StartProxy
    \/ ProxySleep
    \/ \E ok \in BOOLEAN : MakeLlm(ok)
    \/ \E ok \in BOOLEAN : Finally(ok)

NextLive ==
    \/ MainLive
    \/ \E inp \in LiveChoices : Select(inp)
    \/ \E inp \in LiveConfirms : Confirm(inp)
    \/ \E inp \in LivePrompts : ReadPrompt(inp)
    \/ ProxyBind
    \/ ProxyBindFail

SpecLive == Init /\ [][NextLive]_vars /\ WF_vars(MainLive)

\* ------------------------------------------------------------------------
\* Vocabulary of the properties
\* ------------------------------------------------------------------------
At(kind) == {i \in 1..Len(log) : log[i][1] = kind}

LoopEntered == Count("loop") > 0

InLoop == pc \in {"read", "generate"}

\* the number typed at the selection prompt, 0 when the line is not a number
TypedNumber ==
    IF choice \in {NoInput, EOF, INTERRUPT} \/ ParseInt(choice) = ValueError
    THEN 0 ELSE ParseInt(choice).int

ChoiceIsNumber ==
    choice \notin {NoInput, EOF, INTERRUPT} /\ ParseInt(choice) # ValueError

SelectionDone == pc \notin {"start", "get_gpus", "get_pods", "select"} /\ choice \notin {NoInput, INTERRUPT}

ValidSelection ==
    SelectionDone /\ ChoiceIsNumber /\ 1 <= TypedNumber /\ TypedNumber <= Len(pods)

\* ids named in remote calls about one pod
IdsUsed == {log[i][2] : i \in At("get_pod") \cup At("resume_pod") \cup At("stop_pod") \cup At("create_pod")}

\* ------------------------------------------------------------------------
\* C1: once the session loop has been entered, every way of leaving it (the
\* sentinel, an exception from the read or from the generation call) goes
\* through exactly one stop_pod request for the run's pod before the process
\* ends: no stop_pod while looping, and exactly one when the process is over.
\* ------------------------------------------------------------------------
C1_StopOnEveryLoopExit ==
    LoopEntered =>
        /\ pc \in {"read", "generate", "finally", "done", "crashed"}
        /\ pc \in {"read", "generate", "finally"} => Count("stop_pod") = 0
        /\ pc \in Terminal =>
              /\ Count("stop_pod") = 1
              /\ \A i \in At("stop_pod") : log[i][2] = pod_id

C1_Witness_ExceptionExitStopped ==
    /\ LoopEntered
    /\ pc = "crashed"
    /\ pending
    /\ prompt = EOF
    /\ Count("stop_pod") = 1

\* ------------------------------------------------------------------------
\* C2: with a non-empty pod list and a selection k, 1 <= k <= len(pods), the
\* pod used for the rest of the run is pods[k-1] (k-th of the list) and
\* create_pod is never called.
\* ------------------------------------------------------------------------
C2_ValidSelectionReuses ==
    (pods # <<>> /\ ValidSelection) =>
        /\ selected_pod = pods[TypedNumber]
        /\ Count("create_pod") = 0
        /\ IdsUsed \subseteq {pods[TypedNumber].id}
        /\ pod_id \in {"", pods[TypedNumber].id}
        /\ pod_info # None => pod_info.id = pods[TypedNumber].id
        /\ inference_url # <<>> => inference_url = EndpointOf(pods[TypedNumber])
        /\ pc \notin {"create", "create_poll", "create_sleep", "exited"}

C2_Witness_SecondPodServing ==
    /\ Len(pods) = 2
    /\ choice = <<" ", "2", " ">>
    /\ pc = "done"
    /\ IdsUsed = {pods[2].id}
    /\ Count("resume_pod") = 1

\* ------------------------------------------------------------------------
\* C3: at most one pod is owned in a run: create_pod is called at most once,
\* never when an existing pod has been selected for reuse, and all remote
\* calls of the run name one pod.
\* ------------------------------------------------------------------------
C3_AtMostOnePod ==
    /\ Count("create_pod") <= 1
    /\ pc = "create" => selected_pod = None /\ Count("create_pod") = 0
    /\ Count("create_pod") = 1 => ~ValidSelection /\ IdsUsed = {NewPodId}
    /\ Cardinality(IdsUsed) <= 1

C3_Witness_CreatedPodStopped ==
    /\ pods # <<>>
    /\ Count("create_pod") = 1
    /\ Count("stop_pod") = 1
    /\ pc = "done"

\* ------------------------------------------------------------------------
\* Readiness wait: vocabulary
\* ------------------------------------------------------------------------
WaitFinished == pc \notin {"start", "get_gpus", "get_pods", "select", "branch", "resume",
                           "reuse_poll", "reuse_sleep", "create", "create_poll",
                           "create_sleep", "exited", "crashed"}
                \/ (pc = "crashed" /\ inference_url # <<>>)

Polls == At("get_pod")

ReadyPolls == {i \in Polls : log[i][3] = "nonempty"}

Consecutive(i, j) == i \in Polls /\ j \in Polls /\ i < j /\ ~\E k \in Polls : i < k /\ k < j

SleepBetween(i, j) == \E k \in (i + 1)..(j - 1) : log[k] = <<"sleep", "5">>

ResumeBetween(i, j) == \E k \in (i + 1)..(j - 1) : log[k][1] = "resume_pod"

OnReusePath == ValidSelection

\* ------------------------------------------------------------------------
\* C4 as stated: on both paths the wait finishes only after a get_pod result
\* with a non-empty runtime; with N 'not ready' answers followed by a 'ready'
\* one there are exactly N+1 polls, and a 5-second sleep lies between every
\* two consecutive polls.
\* ------------------------------------------------------------------------
C4_Original_SleepBetweenAllPolls ==
    WaitFinished =>
        /\ ReadyPolls # {}
        /\ \A i \in Polls : i \in ReadyPolls <=> (\A j \in Polls : j <= i)
        /\ \A i, j \in Polls : Consecutive(i, j) => SleepBetween(i, j)

\* C4 as amended: the wait finishes only after a get_pod result with a
\* non-empty runtime; the ready answer is the last poll, so N 'not ready'
\* answers give exactly N+1 polls; a 5-second sleep lies between every two
\* consecutive polls except between the first two polls of the reuse path,
\* where resume_pod is called instead and no sleep is taken.
C4_PollsUntilReady ==
    WaitFinished =>
        /\ ReadyPolls # {}
        /\ \A i \in Polls : i \in ReadyPolls <=> (\A j \in Polls : j <= i)
        /\ \A i, j \in Polls : Consecutive(i, j) =>
              IF OnReusePath /\ (\A k \in Polls : i <= k)
              THEN ResumeBetween(i, j) /\ ~SleepBetween(i, j)
              ELSE SleepBetween(i, j) /\ ~ResumeBetween(i, j)
        /\ Cardinality({k \in 1..Len(log) : log[k] = <<"sleep", "5">>}) =
              IF OnReusePath /\ Cardinality(Polls) >= 2
              THEN Cardinality(Polls) - 2 ELSE Cardinality(Polls) - 1

C4_Witness_ReuseTwoNotReady ==
    /\ WaitFinished
    /\ OnReusePath
    /\ Cardinality(Polls) = 3
    /\ Count("resume_pod") = 1
    /\ pc = "read"

\* ------------------------------------------------------------------------
\* C5: every line that is not the sentinel gets exactly one generation
\* request and then exactly one outcome (a 'Model:' line or an error log)
\* before the next line is read; a failed generation call does not end the
\* loop, is not retried and does not trigger teardown.
\* ------------------------------------------------------------------------
IsRead(i) == log[i] = <<"input", "prompt">>

IsGenerate(i) == log[i][1] = "generate"

IsFailure(i) == log[i] = <<"error", "Inference request failed">>

IsOutcome(i) == log[i] = <<"model_line">> \/ IsFailure(i)

C5_OneRequestOneOutcomePerLine ==
    /\ \A i \in 1..Len(log) :
          /\ IsGenerate(i) => i > 1 /\ IsRead(i - 1)
          /\ IsOutcome(i) => i > 1 /\ IsGenerate(i - 1)
          /\ (IsRead(i) /\ i > 1 /\ log[i - 1] # <<"loop">>) => IsOutcome(i - 1)
          /\ (IsFailure(i) /\ i < Len(log)) => IsRead(i + 1)
          /\ (IsFailure(i) /\ i = Len(log)) => pc = "read" /\ ~pending
          /\ (IsGenerate(i) /\ i = Len(log)) => pc = "finally" /\ pending
          /\ (IsRead(i) /\ i = Len(log)) =>
                \/ pc = "generate" /\ ~IsSentinel(prompt)
                \/ pc = "finally" /\ pending
    /\ pc = "read" =>
          /\ Count("generate") = Cardinality({i \in 1..Len(log) : IsRead(i)})
          /\ Count("generate") = Cardinality({i \in 1..Len(log) : IsOutcome(i)})
          /\ Count("stop_pod") = 0

C5_Witness_FailureThenNextRead ==
    /\ pc = "generate"
    /\ Count("generate") = 1
    /\ Count("model_line") = 0
    /\ \E i \in 1..Len(log) : IsFailure(i)
    /\ Count("stop_pod") = 0

\* ------------------------------------------------------------------------
\* C6 (SpecRelay): for every request the relay handles, it never raises to
\* its caller; when the request parses and the upstream call answers with
\* JSON, the body handed back is the upstream JSON value and the body posted
\* upstream is the received JSON value, with no field added, dropped or
\* renamed; when the request does not parse, the upstream call raises or its
\* answer is not JSON, the relay returns an object with the single key
\* "error".
\* ------------------------------------------------------------------------
Handled == relay # NoRelay

RequestParses == JsonLoads(relay.body) # JSONDecodeError

UpstreamSucceeds ==
    /\ RequestParses
    /\ relay.upstream[1] = "response"
    /\ JsonLoads(relay.upstream[2]) # JSONDecodeError

IsErrorEnvelope(v) == Len(v) = 3 /\ v[1] = "obj" /\ v[2] = "error"

InvalidSelection ==
    /\ SelectionDone
    /\ pods # <<>>
    /\ choice # EOF
    /\ Strip(choice) # <<>>
    /\ ~(ChoiceIsNumber /\ 1 <= TypedNumber /\ TypedNumber <= Len(pods))

C7_InvalidThenNoExits ==
    (InvalidSelection /\ confirm = <<"n">>) =>
        /\ pc = "exited"
        /\ IdsUsed = {}
        /\ selected_pod = None
        /\ pod_id = ""
        /\ proxy = "none"

C7_Witness_OutOfRangeThenNo ==
    /\ InvalidSelection
    /\ ChoiceIsNumber
    /\ TypedNumber > Len(pods)
    /\ confirm = <<"n">>
    /\ pc = "exited"

\* ------------------------------------------------------------------------
\* C8 as stated: for every selection input that is not a valid 1-based index
\* (non-numeric text, zero, a negative number, a number above len(pods)) no
\* pod is reused, a warning is logged and the controller goes on to create a
\* new pod.
\* ------------------------------------------------------------------------
C8_InvalidSelectionWarnsAndCreates ==
    InvalidSelection =>
        /\ selected_pod \in {None, Pod(NewPodId)}
        /\ Count("warning") = 1
        /\ pc # "exited"

\* ------------------------------------------------------------------------
\* C9: a line ends the session loop if and only if it is '/bye' in any
\* letter case surrounded by any amount of whitespace; for such a line no
\* generation request is issued.
\* ------------------------------------------------------------------------
MatchesBye(s) ==
    \E i \in 0..Len(s) :
        /\ i + 4 <= Len(s)
        /\ \A k \in 1..i : s[k] \in Whitespace
        /\ s[i + 1] = "/"
        /\ s[i + 2] \in {"b", "B"}
        /\ s[i + 3] \in {"y", "Y"}
        /\ s[i + 4] \in {"e", "E"}
        /\ \A k \in (i + 5)..Len(s) : s[k] \in Whitespace

C9_SentinelEndsLoop ==
    [][(pc = "read" /\ pc' # "read" /\ prompt' \notin {EOF, INTERRUPT}) =>
          /\ MatchesBye(prompt') <=> pc' = "finally"
          /\ ~MatchesBye(prompt') <=> pc' = "generate"
          /\ MatchesBye(prompt') => Count("generate")' = Count("generate") /\ ~pending'
      ]_vars

C9_Witness_PaddedUpperCaseBye ==
    /\ pc = "finally"
    /\ ~pending
    /\ prompt = <<" ", "/", "B", "Y", "E", " ">>
    /\ Count("generate") = 0

\* ------------------------------------------------------------------------
\* C10: the relay's listener thread is started, and the session loop is
\* entered, only after a get_pod result with a non-empty runtime has been
\* seen for the run's pod; the relay is never started while the controller
\* is still provisioning or waiting.
\* ------------------------------------------------------------------------
Provisioning == {"start", "get_gpus", "get_pods", "select", "branch", "resume",
                 "reuse_poll", "reuse_sleep", "create", "create_poll", "create_sleep"}

ReadySeen == \E i \in Polls : log[i] = <<"get_pod", pod_id, "nonempty">>

C10_RelayOnlyAfterReady ==
    /\ (proxy # "none" \/ Count("thread_start") > 0 \/ LoopEntered) =>
          /\ ReadySeen
          /\ pc \notin Provisioning
          /\ pod_info = PodInfo(pod_id, "nonempty")
    /\ LoopEntered => Count("thread_start") = 1
    /\ \A i \in At("thread_start") : \E j \in ReadyPolls : j < i
    /\ \A i \in At("thread_start") : \A j \in Polls \cup At("resume_pod") \cup At("create_pod") : j < i

C10_Witness_RelayListeningInLoop ==
    /\ proxy = "listening"
    /\ pc = "read"
    /\ Count("create_pod") = 1
    /\ ReadySeen

\* ------------------------------------------------------------------------
\* C11 as stated: every generation request of the session loop goes to the
\* local relay, never straight to the remote inference endpoint.
\* ------------------------------------------------------------------------
Target(i) == SubSeq(log[i], 2, Len(log[i]))

C11_Original_GenerateThroughRelay ==
    \A i \in At("generate") : Target(i) = RelayUrl

\* C11 as amended: every generation request of the session loop is sent by
\* the LangChain client straight to the remote inference endpoint of the
\* run's pod (inference_url); none is sent to the local relay, which is
\* started but serves only requests other clients post to it.
C11_GenerateGoesDirect ==
    /\ \A i \in At("generate") :
          /\ Target(i) = <<"https://", pod_id, "-80.proxy.runpod.net">>
          /\ Target(i) # RelayUrl
          /\ proxy # "none"
    /\ pc \in {"read", "generate", "finally"} => llm = inference_url /\ llm # RelayUrl

C11_Witness_DirectWhileRelayListens ==
    /\ Count("generate") = 2
    /\ Count("model_line") = 2
    /\ proxy = "listening"
    /\ pc = "read"

\* ------------------------------------------------------------------------
\* C12: when RUNPOD_API_KEY is absent the process aborts at startup and no
\* remote control call (get_gpus, get_pods, get_pod, create_pod, resume_pod,
\* stop_pod) is ever made.
\* ------------------------------------------------------------------------
RemoteCalls == At("get_gpus") \cup At("get_pods") \cup At("get_pod")
               \cup At("create_pod") \cup At("resume_pod") \cup At("stop_pod")

C12_NoKeyNoRemoteCall ==
    api_key = <<>> =>
        /\ pc \in {"start", "crashed"}
        /\ RemoteCalls = {}
        /\ proxy = "none"
        /\ pc = "crashed" => log = << <<"error", "RUNPOD_API_KEY not found">> >>

C12_Witness_AbortedWithoutKey ==
    /\ api_key = <<>>
    /\ pc = "crashed"
    /\ log # <<>>

\* ------------------------------------------------------------------------
\* C13: a get_pod, resume_pod or create_pod call that raises before the
\* session loop is entered ends the process with no stop_pod call, also when
\* create_pod or resume_pod succeeded earlier in the run; stop_pod is
\* requested only in runs that entered the session loop.
\* ------------------------------------------------------------------------
Raised(i) == log[i][1] \in {"get_pod", "resume_pod", "create_pod"} /\ log[i][3] = "raise"

C13_ProvisioningErrorSkipsTeardown ==
    /\ Count("stop_pod") > 0 => LoopEntered
    /\ \A i \in 1..Len(log) : Raised(i) =>
          /\ i = Len(log)
          /\ pc = "crashed"
          /\ ~LoopEntered
          /\ Count("stop_pod") = 0
          /\ proxy = "none"

C13_Witness_CreatedPodOrphaned ==
    /\ pc = "crashed"
    /\ \E i \in At("create_pod") : log[i][3] = "ok"
    /\ Raised(Len(log))
    /\ log[Len(log)][1] = "get_pod"
    /\ Count("stop_pod") = 0

\* ------------------------------------------------------------------------
\* C14 (SpecLive): the readiness wait has no retry cap.  While no get_pod
\* answer has a non-empty runtime the process is not past the wait: no relay
\* thread, no session loop, no teardown.  If the remote never reports a
\* non-empty runtime and no call raises, a process that entered the wait
\* stays in it for ever and polls again and again.  If a non-empty runtime is
\* reported and no call raises, the session loop is eventually entered.
\* ------------------------------------------------------------------------
InWait == pc \in {"resume", "reuse_poll", "reuse_sleep", "create_poll", "create_sleep"}

AtPoll == pc \in {"reuse_poll", "create_poll"}

ReadyObserved == pod_info # None /\ pod_info.runtime = "nonempty"

NotCrashed == pc # "crashed"

PastWait == \/ proxy # "none"
            \/ pc \in {"endpoint", "start_proxy", "proxy_sleep", "make_llm", "read",
                       "generate", "finally", "done"}
            \/ Count("stop_pod") > 0

C14_UnboundedWait ==
    /\ [](~ReadyObserved => ~PastWait)
    /\ ([]~ReadyObserved /\ []NotCrashed /\ <>InWait) => (<>[]InWait /\ []<>AtPoll)
    /\ ([]NotCrashed /\ <>ReadyObserved) => <>(pc = "read")

C14_Witness_PollingBeyondAnyCap ==
    /\ pc = "create_sleep"
    /\ Count("get_pod") > MaxNotReady + 2
    /\ ~ReadyObserved
    /\ proxy = "none"

\* ------------------------------------------------------------------------
\* C15: after starting the listener thread the main thread declares the
\* relay running and enters the session loop after a fixed delay, whatever
\* the listener has done: in each of the listener's states (not yet bound,
\* listening, failed to bind) the step that ends the delay and the step that
\* enters the session loop can be taken, and the thread's state is never
\* changed or awaited by them.  The state in which the relay has been
\* declared running and a prompt is being read while the listener has not
\* bound its port is reachable (C15_Witness_LoopBeforeBind).
\* ------------------------------------------------------------------------
DeclaredRunning == \E i \in 1..Len(log) : log[i] = <<"info", "Local proxy is running">>

C15_NoHandshakeWithListener ==
    /\ pc = "proxy_sleep" => ENABLED ProxySleep
    /\ pc = "make_llm" => ENABLED MakeLlm(TRUE)
    /\ DeclaredRunning => proxy \in {"starting", "listening", "failed"}
    /\ (pc = "proxy_sleep" /\ proxy = "starting") => ENABLED (ProxySleep /\ proxy' = "starting")

C15_Witness_LoopBeforeBind ==
    /\ DeclaredRunning
    /\ pc = "read"
    /\ LoopEntered
    /\ proxy = "starting"

\* ------------------------------------------------------------------------
\* C16: resume_pod is called at most once per run, and exactly when the
\* first get_pod result of a reused pod has no (truthy) runtime; a reused pod
\* whose first get_pod result has a non-empty runtime goes on to serving
\* after that single get_pod call, with no resume_pod, no create_pod and no
\* polling; a newly created pod is never resumed.
\* ------------------------------------------------------------------------
FirstPoll == CHOOSE i \in Polls : \A j \in Polls : i <= j

FirstPollAnswered == Polls # {} /\ log[FirstPoll][3] # "raise"

C16_ResumeOnlyStoppedReusedPod ==
    /\ Count("resume_pod") <= 1
    /\ \A i \in At("resume_pod") :
          /\ OnReusePath
          /\ i - 1 = FirstPoll
          /\ log[i - 1][3] \in {"absent", "empty"}
          /\ log[i][2] = pods[TypedNumber].id
    /\ (OnReusePath /\ FirstPollAnswered /\ log[FirstPoll][3] # "nonempty" /\ pc # "resume")
          => Count("resume_pod") = 1
    /\ (OnReusePath /\ FirstPollAnswered /\ log[FirstPoll][3] = "nonempty") =>
          /\ Cardinality(Polls) = 1
          /\ Count("resume_pod") = 0
          /\ Count("create_pod") = 0
          /\ \A k \in 1..Len(log) : log[k] # <<"sleep", "5">>
          /\ pc \notin Provisioning
          /\ FirstPoll < Len(log) => log[FirstPoll + 1] = <<"info", "Model is live">>
    /\ Count("create_pod") > 0 => Count("resume_pod") = 0

C16_Witness_RunningPodReusedDirectly ==
    /\ OnReusePath
    /\ Cardinality(Polls) = 1
    /\ log[FirstPoll][3] = "nonempty"
    /\ Count("resume_pod") = 0
    /\ pc = "read"

\* ------------------------------------------------------------------------
\* C17: in every run that reaches teardown the id passed to stop_pod is the
\* id of the one pod reused or created in the run, and the inference
\* endpoint URL was derived from the same id; also for a reused pod that was
\* already running.
\* ------------------------------------------------------------------------
RunPodId == IF OnReusePath THEN pods[TypedNumber].id ELSE NewPodId

C17_StopTargetsTheRunsPod ==
    \A i \in At("stop_pod") :
        /\ log[i][2] = RunPodId
        /\ log[i][2] = selected_pod.id
        /\ inference_url = <<"https://", log[i][2], "-80.proxy.runpod.net">>
        /\ \A j \in Polls \cup At("resume_pod") \cup At("create_pod") : log[j][2] = log[i][2]

C17_Witness_RunningReusedPodStopped ==
    /\ Len(pods) = 2
    /\ OnReusePath
    /\ TypedNumber = 1
    /\ Cardinality(Polls) = 1
    /\ Count("resume_pod") = 0
    /\ Count("stop_pod") = 1
    /\ pc = "done"

\* ------------------------------------------------------------------------
\* C18: create_pod is never called unless the operator answered the new-pod
\* question with 'y' in either letter case, surrounded by any whitespace;
\* with an empty pod list, or an empty or invalid selection, any other
\* answer ends the process with no pod created.
\* ------------------------------------------------------------------------
AnsweredYes ==
    \E i \in 1..Len(confirm) :
        /\ confirm[i] \in {"y", "Y"}
        /\ \A k \in 1..Len(confirm) : k # i => confirm[k] \in Whitespace

Answered == confirm \notin {NoInput, EOF}

C18_CreateOnlyOnYes ==
    /\ Count("create_pod") > 0 => AnsweredYes
    /\ pc = "create" => AnsweredYes
    /\ (Answered /\ ~AnsweredYes) =>
          /\ pc = "exited"
          /\ Count("create_pod") = 0
          /\ IdsUsed = {}
          /\ log[Len(log)] = <<"input", "confirm">>
    /\ Answered => selected_pod \in {None, Pod(NewPodId)} /\ ~ValidSelection
    /\ confirm = EOF => pc = "crashed" /\ Count("create_pod") = 0

C18_Witness_YesWordRefused ==
    /\ pods = <<>>
    /\ confirm = <<"y", "e", "s">>
    /\ pc = "exited"
    /\ Count("create_pod") = 0

====
